---- MODULE Spec2Model ----
(***************************************************************************)
(* Model of src/dfx.py: the DXF quantity pipeline.                         *)
(*                                                                         *)
(*   validate_dxf -> extract_entities -> calculate_quantities -> reports   *)
(*                                                                         *)
(* Data encoding.                                                          *)
(*   Point            a tuple <<x, y>> or <<x, y, z>> of integers          *)
(*   optional value   None (= <<>>) or Some(v) (= <<v>>); Python's None    *)
(*                    and a getattr() default are both None                *)
(*   real value       a record [form, n] in normal form (see Num, Sqrt,    *)
(*                    Half, PiTimes): n, sqrt(n), n/2 or pi*n, so that     *)
(*                    equality of records is equality of values            *)
(*   dict             a record with the dict's keys                        *)
(*   list             a sequence                                           *)
(***************************************************************************)
EXTENDS Integers, Sequences, FiniteSets, TLC

VARIABLES
    pc,          \* position in the operation being run
    doc,         \* what validate_dxf returned: None or Some(raw entity list)
    entities,    \* the list extract_entities returned / calculate_quantities is given
    quantities,  \* the list calculate_quantities returned
    raised,      \* the exception that ended the operation, or "" when none
    files,       \* the artifacts written: "error_log", "csv", "pdf"
    stdout,      \* the messages printed by process_dxf itself
    trace,       \* the functions process_dxf has called, in order
    args,        \* the arguments of a GeometryMath call
    ret          \* what a GeometryMath call returned (an optional real)

vars == <<pc, doc, entities, quantities, raised, files, stdout, trace, args, ret>>

----------------------------------------------------------------------------
(* Bounds of the model. *)

\* longest vertex list given to calculate_polygon_area
MaxVertices == 4
\* longest point list given to calculate_volume
MaxPoints == 3
\* longest list of normalized entities given to calculate_quantities
MaxEntities == 3
\* largest number of raw entities in a document's modelspace
MaxRaw == 4

----------------------------------------------------------------------------
(* Optional values and exact reals. *)

None == <<>>
Some(v) == <<v>>
IsNone(o) == o = <<>>
Get(o) == o[1]

Abs(x) == IF x < 0 THEN -x ELSE x

\* the number n
Num(n) == [form |-> "int", n |-> n]

\* math.sqrt(n), n >= 0: the integer root when n is a perfect square
Sqrt(n) ==
    IF \E k \in 0..n : k * k = n
    THEN Num(CHOOSE k \in 0..n : k * k = n)
    ELSE [form |-> "sqrt", n |-> n]

\* n / 2 (Python's true division)
Half(n) == IF n % 2 = 0 THEN Num(n \div 2) ELSE [form |-> "half", n |-> n]

\* pi * n
PiTimes(n) == IF n = 0 THEN Num(0) ELSE [form |-> "pi", n |-> n]

----------------------------------------------------------------------------
(* GeometryMath. *)

\* faulty variant: the distance over all three coordinates
calculate_distance_3d(point1, point2) ==
    IF IsNone(point1) \/ IsNone(point2)
    THEN Num(0)
    ELSE LET p == Get(point1)
             q == Get(point2)
             dz == IF Len(p) > 2 /\ Len(q) > 2 THEN q[3] - p[3] ELSE 0
         IN Sqrt((q[1] - p[1]) * (q[1] - p[1]) + (q[2] - p[2]) * (q[2] - p[2]) + dz * dz)

\* calculate_distance(point1, point2); the arguments are optional points
calculate_distance(point1, point2) ==
    IF IsNone(point1) \/ IsNone(point2)
    THEN Num(0)
    ELSE LET p == Get(point1)
             q == Get(point2)
         IN Sqrt((q[1] - p[1]) * (q[1] - p[1]) + (q[2] - p[2]) * (q[2] - p[2]))

\* the loop of calculate_polygon_area: area after the iterations i..n-1
\* (i counts from 0 as in the source; vertices[i] there is vertices[i+1] here)
RECURSIVE ShoelaceLoop(_, _, _)
ShoelaceLoop(vertices, i, area) ==
    LET n == Len(vertices)
    IN IF i >= n
       THEN area
       ELSE LET x1 == vertices[i + 1][1]
                y1 == vertices[i + 1][2]
                x2 == vertices[((i + 1) % n) + 1][1]
                y2 == vertices[((i + 1) % n) + 1][2]
            IN ShoelaceLoop(vertices, i + 1, area + x1 * y2 - x2 * y1)

\* faulty variant: the signed area (no abs)
calculate_polygon_area_signed(vertices) ==
    IF Len(vertices) < 3
    THEN Num(0)
    ELSE Half(ShoelaceLoop(vertices, 0, 0))

\* calculate_polygon_area(vertices)
calculate_polygon_area(vertices) ==
    IF Len(vertices) < 3
    THEN Num(0)
    ELSE Half(Abs(ShoelaceLoop(vertices, 0, 0)))

\* faulty variant: the base area is computed from the footprint
calculate_volume_footprint(points) ==
    IF Len(points) < 3
    THEN Num(0)
    ELSE LET base_area == Abs(ShoelaceLoop(points, 0, 0))
             height == IF Len(points[1]) > 2 THEN points[1][3] ELSE 0
         IN Half(base_area * height)

\* calculate_volume(points)
calculate_volume(points) ==
    IF Len(points) < 3
    THEN Num(0)
    ELSE LET base_area == 0
             height == IF Len(points[1]) > 2 THEN points[1][3] ELSE 0
         IN Num(base_area * height)

----------------------------------------------------------------------------
(* QuantityEngine. *)

\* the dict extract_entities builds for one entity
Entity(type, layer, start_point, end_point, radius, vertices, is_closed, points) ==
    [type |-> type, layer |-> layer, start_point |-> start_point,
     end_point |-> end_point, radius |-> radius, vertices |-> vertices,
     is_closed |-> is_closed, points |-> points]

\* the dict calculate_quantities appends for one entity
QuantityRecord(type, layer, length, area, volume) ==
    [type |-> type, layer |-> layer, length |-> length, area |-> area,
     volume |-> volume]

\* Python truthiness of entity["points"]: neither None nor an empty list
Truthy(points) == ~IsNone(points) /\ Get(points) # <<>>

\* faulty variant: the LWPOLYLINE branch computes the area without looking at is_closed
calculate_quantities_step_noclosed(results, entity) ==
    IF entity.type = "LWPOLYLINE" /\ entity.vertices # <<>>
    THEN [raised |-> "",
          results |-> Append(results,
              QuantityRecord("LWPOLYLINE", entity.layer, None,
                             Some(calculate_polygon_area(entity.vertices)), None))]
    ELSE IF entity.type = "LINE"
    THEN [raised |-> "",
          results |-> Append(results,
              QuantityRecord("LINE", entity.layer,
                             Some(calculate_distance(entity.start_point, entity.end_point)),
                             None, None))]
    ELSE IF entity.type = "CIRCLE" /\ ~IsNone(entity.radius)
    THEN [raised |-> "",
          results |-> Append(results,
              QuantityRecord("CIRCLE", entity.layer, None,
                             Some(PiTimes(Get(entity.radius) * Get(entity.radius))), None))]
    ELSE IF entity.type = "CIRCLE"
    THEN [raised |-> "TypeError", results |-> results]
    ELSE IF entity.type \in {"3DSOLID", "POLYFACE"} /\ Truthy(entity.points)
    THEN [raised |-> "",
          results |-> Append(results,
              QuantityRecord(entity.type, entity.layer, None, None,
                             Some(calculate_volume(Get(entity.points)))))]
    ELSE [raised |-> "", results |-> results]

\* one iteration of the loop of calculate_quantities: the if/elif chain applied
\* to one entity. raised is the exception the iteration ends with ("" for none):
\* None ** 2 is a TypeError.
calculate_quantities_step(results, entity) ==
    IF entity.type = "LINE"
    THEN [raised |-> "",
          results |-> Append(results,
              QuantityRecord("LINE", entity.layer,
                             Some(calculate_distance(entity.start_point, entity.end_point)),
                             None, None))]
    ELSE IF entity.type = "CIRCLE"
    THEN IF IsNone(entity.radius)
         THEN [raised |-> "TypeError", results |-> results]
         ELSE [raised |-> "",
               results |-> Append(results,
                   QuantityRecord("CIRCLE", entity.layer, None,
                                  Some(PiTimes(Get(entity.radius) * Get(entity.radius))),
                                  None))]
    ELSE IF entity.type = "LWPOLYLINE" /\ entity.vertices # <<>>
    THEN IF entity.is_closed
         THEN [raised |-> "",
               results |-> Append(results,
                   QuantityRecord("LWPOLYLINE", entity.layer, None,
                                  Some(calculate_polygon_area(entity.vertices)), None))]
         ELSE [raised |-> "",
               results |-> Append(results,
                   QuantityRecord("LWPOLYLINE", entity.layer, None, None, None))]
    ELSE IF entity.type = "3DSOLID" /\ Truthy(entity.points)
    THEN [raised |-> "",
          results |-> Append(results,
              QuantityRecord("3DSOLID", entity.layer, None, None,
                             Some(calculate_volume(Get(entity.points)))))]
    ELSE IF entity.type = "POLYFACE" /\ Truthy(entity.points)
    THEN [raised |-> "",
          results |-> Append(results,
              QuantityRecord("POLYFACE", entity.layer, None, None,
                             Some(calculate_volume(Get(entity.points)))))]
    ELSE [raised |-> "", results |-> results]

\* faulty variant: a record equal to one already in results is not appended again
calculate_quantities_iter_dedup(results, entity) ==
    LET r == calculate_quantities_step(results, entity)
    IN IF r.raised = "" /\ Len(r.results) > Len(results)
          /\ \E i \in 1..Len(results) : results[i] = r.results[Len(r.results)]
       THEN [raised |-> "", results |-> results]
       ELSE r

\* faulty variant: the record is inserted at the front of results
calculate_quantities_iter_front(results, entity) ==
    LET r == calculate_quantities_step(results, entity)
    IN IF r.raised = "" /\ Len(r.results) > Len(results)
       THEN [raised |-> "", results |-> <<r.results[Len(r.results)]>> \o results]
       ELSE r

\* the body of "for entity in entities"
calculate_quantities_iter(results, entity) ==
    calculate_quantities_step(results, entity)

\* the loop of calculate_quantities from the i-th entity on. An exception leaves
\* the function at once: nothing is returned (value is the empty list).
RECURSIVE calculate_quantities_from(_, _, _)
calculate_quantities_from(ents, i, results) ==
    IF i > Len(ents)
    THEN [raised |-> "", value |-> results]
    ELSE LET r == calculate_quantities_iter(results, ents[i])
         IN IF r.raised # ""
            THEN [raised |-> r.raised, value |-> <<>>]
            ELSE calculate_quantities_from(ents, i + 1, r.results)

\* calculate_quantities(entities)
calculate_quantities(ents) == calculate_quantities_from(ents, 1, <<>>)

----------------------------------------------------------------------------
(* Inputs. *)

SeqsUpTo(S, n) == UNION {[1..k -> S] : k \in 0..n}

\* coordinates of the points given to calculate_distance
DistCoords == {-1, 0, 3, 4}
DistHeights == {0, 7}
DistPoints ==
    {<<x, y>> : x \in DistCoords, y \in DistCoords}
    \cup {<<x, y, z>> : x \in DistCoords, y \in DistCoords, z \in DistHeights}
OptDistPoints == {None} \cup {Some(p) : p \in DistPoints}

\* coordinates of the vertices given to calculate_polygon_area
AreaCoords == {-1, 0, 4}
AreaPoints == {<<x, y>> : x \in AreaCoords, y \in AreaCoords}

\* the points given to calculate_volume: with and without a Z-coordinate
VolCoords == {0, 1}
VolHeights == {-2, 5}
VolPoints ==
    {<<x, y>> : x \in VolCoords, y \in VolCoords}
    \cup {<<x, y, z>> : x \in VolCoords, y \in VolCoords, z \in VolHeights}

Square == <<(<<0, 0>>), (<<4, 0>>), (<<4, 4>>), (<<0, 4>>)>>
Layers == {"0", "WALLS"}

\* normalized entities: for each type, the fields of that type populated
NormalizedEntities ==
    UNION {
        { Entity("LINE", l, Some(<<0, 0>>), Some(<<3, 4>>), None, <<>>, FALSE, None),
          Entity("LINE", l, None, Some(<<3, 4>>), None, <<>>, FALSE, None),
          Entity("CIRCLE", l, None, None, Some(2), <<>>, FALSE, None),
          Entity("CIRCLE", l, None, None, None, <<>>, FALSE, None),
          Entity("LWPOLYLINE", l, None, None, None, Square, TRUE, None),
          Entity("LWPOLYLINE", l, None, None, None, Square, FALSE, None),
          Entity("LWPOLYLINE", l, None, None, None, <<>>, TRUE, None),
          Entity("ARC", l, None, None, None, <<>>, FALSE, None),
          Entity("3DSOLID", l, None, None, None, <<>>, FALSE,
                 Some(<<(<<0, 0, 5>>), (<<1, 0, 5>>), (<<1, 1, 5>>)>>)),
          Entity("3DSOLID", l, None, None, None, <<>>, FALSE, None),
          Entity("POLYFACE", l, None, None, None, <<>>, FALSE, Some(<<(<<0, 0, 5>>)>>)),
          Entity("POLYFACE", l, None, None, None, <<>>, FALSE, Some(<<>>)) }
        : l \in Layers }

----------------------------------------------------------------------------
(* Calls of the functions on their own. *)

Idle ==
    /\ doc = None
    /\ files = {}
    /\ stdout = <<>>
    /\ trace = <<>>

NoCall == args = <<>> /\ ret = None

\* calculate_quantities(ents) is called and returns or raises
RunQuantities(ents) ==
    LET r == calculate_quantities(ents)
    IN /\ entities' = ents
       /\ quantities' = r.value
       /\ raised' = r.raised

\* -- calculate_distance, and a LINE between the same two points
InitDistance ==
    /\ pc = "call"
    /\ args \in {<<a, b>> : a \in OptDistPoints, b \in OptDistPoints}
    /\ ret = None
    /\ entities = <<>> /\ quantities = <<>> /\ raised = ""
    /\ Idle

DistanceCall ==
    /\ pc = "call"
    /\ ret' = Some(calculate_distance(args[1], args[2]))
    /\ pc' = "returned"
    /\ UNCHANGED <<doc, entities, quantities, raised, files, stdout, trace, args>>

LineCall ==
    /\ pc = "returned"
    /\ \E l \in Layers :
         RunQuantities(<<Entity("LINE", l, args[1], args[2], None, <<>>, FALSE, None)>>)
    /\ pc' = "done"
    /\ UNCHANGED <<doc, files, stdout, trace, args, ret>>

NextDistance == DistanceCall \/ LineCall
SpecDistance == InitDistance /\ [][NextDistance]_vars

\* -- calculate_polygon_area
InitArea ==
    /\ pc = "call"
    /\ args \in {<<v>> : v \in SeqsUpTo(AreaPoints, MaxVertices)}
    /\ ret = None
    /\ entities = <<>> /\ quantities = <<>> /\ raised = ""
    /\ Idle

AreaCall ==
    /\ pc = "call"
    /\ ret' = Some(calculate_polygon_area(args[1]))
    /\ pc' = "returned"
    /\ UNCHANGED <<doc, entities, quantities, raised, files, stdout, trace, args>>

NextArea == AreaCall
SpecArea == InitArea /\ [][NextArea]_vars

\* -- calculate_volume, and a 3DSOLID or POLYFACE with the same points
InitVolume ==
    /\ pc = "call"
    /\ args \in {<<p>> : p \in SeqsUpTo(VolPoints, MaxPoints)}
    /\ ret = None
    /\ entities = <<>> /\ quantities = <<>> /\ raised = ""
    /\ Idle

VolumeCall ==
    /\ pc = "call"
    /\ ret' = Some(calculate_volume(args[1]))
    /\ pc' = "returned"
    /\ UNCHANGED <<doc, entities, quantities, raised, files, stdout, trace, args>>

SolidCall ==
    /\ pc = "returned"
    /\ \E t \in {"3DSOLID", "POLYFACE"} :
         RunQuantities(<<Entity(t, "0", None, None, None, <<>>, FALSE, Some(args[1]))>>)
    /\ pc' = "done"
    /\ UNCHANGED <<doc, files, stdout, trace, args, ret>>

NextVolume == VolumeCall \/ SolidCall
SpecVolume == InitVolume /\ [][NextVolume]_vars

\* -- calculate_quantities on a list of normalized entities
InitQuantities ==
    /\ pc = "call"
    /\ entities \in SeqsUpTo(NormalizedEntities, MaxEntities)
    /\ quantities = <<>> /\ raised = ""
    /\ NoCall
    /\ Idle

QuantitiesCall ==
    /\ pc = "call"
    /\ RunQuantities(entities)
    /\ pc' = "done"
    /\ UNCHANGED <<doc, files, stdout, trace, args, ret>>

NextQuantities == QuantitiesCall
SpecQuantities == InitQuantities /\ [][NextQuantities]_vars

----------------------------------------------------------------------------
(* EntityClassifier. *)

\* A raw entity of the document model: its dxftype(), its dxf.layer, and the
\* attributes the code probes with getattr(). An optional field is None when the
\* raw entity does not expose the attribute (getattr then gives its default).
RawEntity(dxftype, layer, start, end, radius, vertices, closed, points) ==
    [dxftype |-> dxftype, layer |-> layer, start |-> start, end |-> end,
     radius |-> radius, vertices |-> vertices, closed |-> closed, points |-> points]

\* getattr(obj, name, default) for an attribute read into the optional o
GetAttr(o, default) == IF IsNone(o) THEN default ELSE Get(o)

\* list(vertex): a list of the vertex's coordinates
ListOf(vertex) == [i \in 1..Len(vertex) |-> vertex[i]]

\* faulty variant: no kind is filtered out
Whitelist_any == {"LINE", "CIRCLE", "LWPOLYLINE", "ARC", "3DSOLID", "POLYFACE", "TEXT"}

\* the kinds extract_entities keeps
Whitelist == {"LINE", "CIRCLE", "LWPOLYLINE", "ARC", "3DSOLID", "POLYFACE"}

\* the dict extract_entities builds from one raw entity: every attribute is
\* probed whatever the entity's kind
ExtractData(entity) ==
    LET vs == GetAttr(entity.vertices, <<>>)
    IN Entity(entity.dxftype,
              entity.layer,
              entity.start,
              entity.end,
              entity.radius,
              [i \in 1..Len(vs) |-> ListOf(vs[i])],
              GetAttr(entity.closed, FALSE),
              entity.points)

\* the body of "for entity in msp"
extract_entities_iter(ents, entity) ==
    IF entity.dxftype \in Whitelist
    THEN Append(ents, ExtractData(entity))
    ELSE ents

RECURSIVE extract_entities_from(_, _, _)
extract_entities_from(msp, i, ents) ==
    IF i > Len(msp)
    THEN ents
    ELSE extract_entities_from(msp, i + 1, extract_entities_iter(ents, msp[i]))

\* extract_entities(doc), msp being doc.modelspace() in iteration order
extract_entities(msp) == extract_entities_from(msp, 1, <<>>)

\* the raw entities of the documents
RawEntities ==
    { RawEntity("LINE", "0", Some(<<0, 0>>), Some(<<3, 4>>), None, None, None, None),
      RawEntity("CIRCLE", "0", None, None, Some(2), None, None, None),
      RawEntity("CIRCLE", "WALLS", None, None, None, None, None, None),
      RawEntity("LWPOLYLINE", "WALLS", None, None, None, Some(Square), Some(TRUE), None),
      RawEntity("LWPOLYLINE", "0", None, None, None, Some(<<>>), Some(TRUE), None),
      RawEntity("LWPOLYLINE", "0", None, None, None,
                Some(<<(<<0, 0>>), (<<4, 0>>)>>), None, None),
      RawEntity("ARC", "0", None, None, Some(1), None, None, None),
      RawEntity("TEXT", "0", None, None, None, None, None, None),
      RawEntity("3DSOLID", "WALLS", None, None, None, None, None,
                Some(<<(<<0, 0, 5>>), (<<1, 0, 5>>), (<<1, 1, 5>>)>>)),
      RawEntity("POLYFACE", "0", None, None, None, None, None, None) }

Documents == SeqsUpTo(RawEntities, MaxRaw)

----------------------------------------------------------------------------
(* process_dxf. *)

Init ==
    /\ pc = "validate"
    /\ doc = None
    /\ entities = <<>>
    /\ quantities = <<>>
    /\ raised = ""
    /\ files = {}
    /\ stdout = <<>>
    /\ trace = <<>>
    /\ NoCall

\* Step 1, ezdxf.readfile raises IOError or DXFStructureError: validate_dxf
\* returns None, the error is logged and process_dxf returns
ValidateFails ==
    /\ pc = "validate"
    /\ \E e \in {"IOError", "DXFStructureError"} :
         /\ doc' = None
         /\ trace' = trace \o <<"validate_dxf", "handle_errors">>
         /\ files' = files \cup {"error_log"}
         /\ pc' = "done"
    /\ UNCHANGED <<entities, quantities, raised, stdout, args, ret>>

\* Step 1, ezdxf.readfile returns a document
ValidateOk ==
    /\ pc = "validate"
    /\ \E d \in Documents : doc' = Some(d)
    /\ trace' = Append(trace, "validate_dxf")
    /\ pc' = "extract"
    /\ UNCHANGED <<entities, quantities, raised, files, stdout, args, ret>>

\* Step 2
ExtractStep ==
    /\ pc = "extract"
    /\ entities' = extract_entities(Get(doc))
    /\ trace' = Append(trace, "extract_entities")
    /\ IF entities' = <<>>
       THEN /\ stdout' = Append(stdout, "No entities found in the DXF file.")
            /\ pc' = "done"
       ELSE /\ stdout' = stdout
            /\ pc' = "calculate"
    /\ UNCHANGED <<doc, quantities, raised, files, args, ret>>

\* faulty variant: the reports are generated whatever calculate_quantities returned
CalculateStep_noreturn ==
    /\ pc = "calculate"
    /\ LET r == calculate_quantities(entities)
       IN /\ quantities' = r.value
          /\ raised' = r.raised
          /\ pc' = IF r.raised # "" THEN "done" ELSE "report"
    /\ trace' = Append(trace, "calculate_quantities")
    /\ UNCHANGED <<doc, entities, files, stdout, args, ret>>

\* Step 3; an exception of calculate_quantities is not caught and ends process_dxf
CalculateStep ==
    /\ pc = "calculate"
    /\ LET r == calculate_quantities(entities)
       IN /\ quantities' = r.value
          /\ raised' = r.raised
          /\ IF r.raised # ""
             THEN /\ stdout' = stdout
                  /\ pc' = "done"
             ELSE IF r.value = <<>>
             THEN /\ stdout' = Append(stdout, "No measurable entities found in the DXF file.")
                  /\ pc' = "done"
             ELSE /\ stdout' = stdout
                  /\ pc' = "report"
    /\ trace' = Append(trace, "calculate_quantities")
    /\ UNCHANGED <<doc, entities, files, args, ret>>

\* Step 4
ReportStep ==
    /\ pc = "report"
    /\ trace' = trace \o <<"generate_csv_report", "generate_pdf_report">>
    /\ files' = files \cup {"csv", "pdf"}
    /\ stdout' = Append(stdout, "Processing complete. Reports are ready.")
    /\ pc' = "done"
    /\ UNCHANGED <<doc, entities, quantities, raised, args, ret>>

Next == ValidateFails \/ ValidateOk \/ ExtractStep \/ CalculateStep \/ ReportStep
Spec == Init /\ [][Next]_vars

----------------------------------------------------------------------------
(* Definitions used to state the properties. *)

\* a CIRCLE whose radius is absent
LacksRadius(e) == e.type = "CIRCLE" /\ IsNone(e.radius)

\* an entity that qualifies for a quantity record
Qualifies(e) ==
    \/ e.type \in {"LINE", "CIRCLE"}
    \/ e.type = "LWPOLYLINE" /\ Len(e.vertices) > 0
    \/ e.type \in {"3DSOLID", "POLYFACE"} /\ ~IsNone(e.points) /\ Len(Get(e.points)) > 0

Qualifying(ents) == SelectSeq(ents, Qualifies)

\* the quantities of a record that are not null
Populated(q) == {f \in {"length", "area", "volume"} : ~IsNone(q[f])}

\* the record q has the type and the layer of the entity e
SameTypeAndLayer(q, e) == q.type = e.type /\ q.layer = e.layer

Reverse(s) == [i \in 1..Len(s) |-> s[Len(s) + 1 - i]]
Rotate(s, k) == [i \in 1..Len(s) |-> s[((i - 1 + k) % Len(s)) + 1]]

\* the shoelace sum of the cycle v: the sum over i of x_i * y_(i+1) - x_(i+1) * y_i,
\* the vertex after the last being the first
RECURSIVE ShoelaceSum(_, _)
ShoelaceSum(v, k) ==
    IF k = 0
    THEN 0
    ELSE LET a == v[k]
             b == IF k = Len(v) THEN v[1] ELSE v[k + 1]
         IN ShoelaceSum(v, k - 1) + (a[1] * b[2] - b[1] * a[2])

XY(p) == <<p[1], p[2]>>

\* the raw entities of the supported kinds, in the document's order
SupportedKinds == {"LINE", "CIRCLE", "LWPOLYLINE", "ARC", "3DSOLID", "POLYFACE"}
IsSupported(r) == r.dxftype \in SupportedKinds
Supported(msp) == SelectSeq(msp, IsSupported)

Count(msp, P(_)) == Cardinality({i \in 1..Len(msp) : P(msp[i])})
IsLine(r) == r.dxftype = "LINE"
IsCircle(r) == r.dxftype = "CIRCLE"
IsClosedPolyline(r) == r.dxftype = "LWPOLYLINE" /\ r.closed = Some(TRUE)
IsUnsupported(r) == ~IsSupported(r)

\* a document of one LINE, one CIRCLE, one closed LWPOLYLINE and one entity of an
\* unsupported kind, in any order
MixedDocument(msp) ==
    /\ Len(msp) = 4
    /\ Count(msp, IsLine) = 1
    /\ Count(msp, IsCircle) = 1
    /\ Count(msp, IsClosedPolyline) = 1
    /\ Count(msp, IsUnsupported) = 1

\* process_dxf has validated the file and extracted the entities
Extracted == ~IsNone(doc) /\ pc \in {"calculate", "report", "done"}

\* extract_entities gave one entity per supported raw entity, in order
ExtractedInOrder ==
    LET K == Supported(Get(doc))
    IN /\ Len(entities) = Len(K)
       /\ \A i \in 1..Len(K) :
            entities[i].type = K[i].dxftype /\ entities[i].layer = K[i].layer

\* the types of the records
TypesOf(qs) == [i \in 1..Len(qs) |-> qs[i].type]
KindsOf(msp) == [i \in 1..Len(msp) |-> msp[i].dxftype]

IsPrefix(s, t) == Len(s) <= Len(t) /\ s = SubSeq(t, 1, Len(s))

----------------------------------------------------------------------------
(* The properties. *)

\* C1: calculate_quantities never aborts the batch because one entity lacks data:
\* for every input list, also one with a CIRCLE whose radius is None, the call
\* completes and returns the records of all the other qualifying entities.
C1_NeverAbortsBatch ==
    pc = "done" =>
        /\ raised = ""
        /\ quantities =
             calculate_quantities(SelectSeq(entities, LAMBDA e : ~LacksRadius(e))).value

\* C2: every record returned by calculate_quantities has at most one of length,
\* area and volume non-null, fixed by its type: LINE only length, CIRCLE only
\* area, closed LWPOLYLINE only area, open LWPOLYLINE none, 3DSOLID and POLYFACE
\* only volume.
C2_OneQuantityPerType ==
    (pc = "done" /\ raised = "") =>
        LET Q == Qualifying(entities)
        IN /\ Len(quantities) = Len(Q)
           /\ \A i \in 1..Len(quantities) :
                LET q == quantities[i]
                    e == Q[i]
                IN /\ q.type = e.type
                   /\ Cardinality(Populated(q)) <= 1
                   /\ q.type = "LINE" => Populated(q) = {"length"}
                   /\ q.type = "CIRCLE" => Populated(q) = {"area"}
                   /\ (q.type = "LWPOLYLINE" /\ e.is_closed) => Populated(q) = {"area"}
                   /\ (q.type = "LWPOLYLINE" /\ ~e.is_closed) => Populated(q) = {}
                   /\ q.type \in {"3DSOLID", "POLYFACE"} => Populated(q) = {"volume"}
                   /\ q.type \in {"LINE", "CIRCLE", "LWPOLYLINE", "3DSOLID", "POLYFACE"}

\* an open and a closed LWPOLYLINE and one more entity have been given records
C2_Witness ==
    /\ pc = "done" /\ raised = "" /\ Len(quantities) = 3
    /\ \E i, j, k \in 1..3 :
         /\ quantities[i].type = "LWPOLYLINE" /\ Populated(quantities[i]) = {}
         /\ quantities[j].type = "LWPOLYLINE" /\ Populated(quantities[j]) = {"area"}
         /\ quantities[k].type = "POLYFACE" /\ Populated(quantities[k]) = {"volume"}

\* C3: with all CIRCLE radii present, the output of calculate_quantities is the
\* input filtered to the qualifying entities, in input order, one record per
\* qualifying entity with its type and layer; ARC, LWPOLYLINE with no vertices and
\* 3DSOLID/POLYFACE with empty or absent points give no record, so the output is
\* never longer than the input.
C3_FilterInOrder ==
    (pc = "done" /\ \A i \in 1..Len(entities) : ~LacksRadius(entities[i])) =>
        LET Q == Qualifying(entities)
        IN /\ raised = ""
           /\ Len(quantities) = Len(Q)
           /\ \A i \in 1..Len(Q) : SameTypeAndLayer(quantities[i], Q[i])
           /\ Len(quantities) <= Len(entities)
           /\ \A i \in 1..Len(entities) :
                LET e == entities[i]
                IN (\/ e.type = "ARC"
                    \/ e.type = "LWPOLYLINE" /\ e.vertices = <<>>
                    \/ e.type \in {"3DSOLID", "POLYFACE"}
                       /\ (IsNone(e.points) \/ Get(e.points) = <<>>))
                   => calculate_quantities(<<e>>).value = <<>>

\* an ARC was skipped between two qualifying entities of different type and layer
C3_Witness ==
    /\ pc = "done" /\ raised = "" /\ Len(entities) = 3 /\ Len(quantities) = 2
    /\ entities[2].type = "ARC"
    /\ quantities[1].type = "CIRCLE" /\ quantities[2].type = "LINE"
    /\ quantities[1].layer # quantities[2].layer

C5_OnlyFieldsOfType ==
    Extracted =>
        \A i \in 1..Len(entities) :
            LET e == entities[i]
            IN /\ e.type # "LINE" => IsNone(e.start_point) /\ IsNone(e.end_point)
               /\ e.type # "CIRCLE" => IsNone(e.radius)
               /\ e.type \notin {"LWPOLYLINE", "ARC"} => e.vertices = <<>> /\ ~e.is_closed
               /\ e.type \notin {"3DSOLID", "POLYFACE"} => IsNone(e.points)

\* C6: calculate_polygon_area does not depend on the winding direction or on the
\* vertex the cycle starts at: for at least 3 vertices the result equals the
\* result on the reversed list and on every rotation, and is half the absolute
\* value of the shoelace sum of the cycle (16 for the square (0,0),(4,0),(4,4),
\* (0,4) in either direction); for fewer than 3 vertices it is 0.
C6_AreaOfCycle ==
    pc = "returned" =>
        LET v == args[1]
        IN /\ Len(v) < 3 => ret = Some(Num(0))
           /\ Len(v) >= 3 =>
                /\ ret = Some(calculate_polygon_area(Reverse(v)))
                /\ \A k \in 1..Len(v) : ret = Some(calculate_polygon_area(Rotate(v, k)))
                /\ ret = Some(Half(Abs(ShoelaceSum(v, Len(v)))))
           /\ (v = Square \/ v = Reverse(Square)) => ret = Some(Num(16))

\* the area of the square, clockwise, has been computed
C6_Witness ==
    pc = "returned" /\ args[1] = Reverse(Square) /\ ret = Some(Num(16))

\* C7: distance(p, p) = 0, distance(a, b) = distance(b, a), and the result is 0
\* whenever an argument is None; only the first two coordinates are used, so a
\* LINE from (0,0) to (3,4) yields exactly one record with length 5, and a LINE
\* with an absent endpoint a record with length 0.
C7_Distance ==
    LET a == args[1]
        b == args[2]
    IN /\ pc \in {"returned", "done"} =>
            /\ a = b => ret = Some(Num(0))
            /\ ret = Some(calculate_distance(b, a))
            /\ (IsNone(a) \/ IsNone(b)) => ret = Some(Num(0))
            /\ (~IsNone(a) /\ ~IsNone(b)) =>
                 /\ ret = Some(calculate_distance(Some(XY(Get(a))), Some(XY(Get(b)))))
                 /\ (XY(Get(a)) = <<0, 0>> /\ XY(Get(b)) = <<3, 4>>) => ret = Some(Num(5))
       /\ pc = "done" =>
            /\ raised = ""
            /\ Len(quantities) = 1
            /\ quantities[1].type = "LINE"
            /\ quantities[1].length = ret
            /\ IsNone(quantities[1].area) /\ IsNone(quantities[1].volume)
            /\ (IsNone(a) \/ IsNone(b)) => quantities[1].length = Some(Num(0))

\* the LINE from (0,0) to (3,4), its endpoints at different heights, has its record
C7_Witness ==
    /\ pc = "done"
    /\ args = <<Some(<<0, 0, 0>>), Some(<<3, 4, 7>>)>>
    /\ Len(quantities) = 1
    /\ quantities[1].length = Some(Num(5))

\* C8: quantity computation distributes over concatenation: for two lists A and B
\* on which the computation completes, calculate_quantities(A \o B) is
\* calculate_quantities(A) followed by calculate_quantities(B); the record of an
\* entity does not depend on the entities before or after it.
C8_Concatenation ==
    pc = "done" =>
        /\ \A k \in 0..Len(entities) :
             LET ra == calculate_quantities(SubSeq(entities, 1, k))
                 rb == calculate_quantities(SubSeq(entities, k + 1, Len(entities)))
             IN (ra.raised = "" /\ rb.raised = "") =>
                    raised = "" /\ quantities = ra.value \o rb.value
        /\ raised = "" =>
             \A i \in 1..Len(entities) :
                LET one == calculate_quantities(<<entities[i]>>).value
                    before == Len(Qualifying(SubSeq(entities, 1, i - 1)))
                IN /\ Len(one) <= 1
                   /\ Len(one) = 1 =>
                        /\ before < Len(quantities)
                        /\ quantities[before + 1] = one[1]

\* a list with the same entity at both ends has been computed
C8_Witness ==
    /\ pc = "done" /\ raised = ""
    /\ Len(entities) = 3 /\ Len(quantities) = 2
    /\ entities[1] = entities[3]
    /\ ~Qualifies(entities[2])

\* C9: process_dxf runs validate, extract, calculate, report in this order, each
\* step only if the one before yielded something: when validation fails the error
\* log is written and nothing else happens; when extraction or calculation yields
\* an empty list the run ends with an informational message and writes neither a
\* report nor the error log; the reports are written only for a non-empty
\* quantity list and the error log only when validation fails.
C9_StepOrder ==
    LET failed == Len(trace) > 0 /\ IsNone(doc)
        Called(f) == \E i \in 1..Len(trace) : trace[i] = f
    IN /\ \/ IsPrefix(trace, <<"validate_dxf", "extract_entities", "calculate_quantities",
                                "generate_csv_report", "generate_pdf_report">>)
          \/ trace = <<"validate_dxf", "handle_errors">>
       /\ Called("extract_entities") => ~IsNone(doc)
       /\ Called("calculate_quantities") => entities # <<>>
       /\ Called("generate_csv_report") => quantities # <<>>
       /\ failed =>
            /\ pc = "done"
            /\ files = {"error_log"}
            /\ trace = <<"validate_dxf", "handle_errors">>
       /\ (pc = "done" /\ ~failed /\ entities = <<>>) =>
            /\ stdout = <<"No entities found in the DXF file.">>
            /\ files = {}
            /\ ~Called("calculate_quantities")
       /\ (pc = "done" /\ ~failed /\ entities # <<>> /\ raised = "" /\ quantities = <<>>) =>
            /\ stdout = <<"No measurable entities found in the DXF file.">>
            /\ files = {}
       /\ ("csv" \in files \/ "pdf" \in files) => quantities # <<>> /\ pc = "done"
       /\ "error_log" \in files => failed

\* a document of ARC entities only ended with the message and no artifact
C9_Witness ==
    /\ pc = "done" /\ ~IsNone(doc)
    /\ Len(entities) = 2 /\ entities[1].type = "ARC"
    /\ quantities = <<>> /\ raised = ""
    /\ stdout = <<"No measurable entities found in the DXF file.">>
    /\ files = {}

\* C10: calculate_volume returns 0 for every points list, whatever the
\* Z-coordinates and with or without a third coordinate, so every 3DSOLID or
\* POLYFACE record has volume 0, also for a points list of fewer than 3 points.
C10_VolumeZero ==
    /\ pc \in {"returned", "done"} => ret = Some(Num(0))
    /\ pc = "done" =>
         /\ raised = ""
         /\ args[1] = <<>> => quantities = <<>>
         /\ args[1] # <<>> =>
              /\ Len(quantities) = 1
              /\ quantities[1].type = entities[1].type
              /\ quantities[1].volume = Some(Num(0))
              /\ IsNone(quantities[1].length) /\ IsNone(quantities[1].area)

\* the POLYFACE with points (0,0,5), (1,0,5), (1,1,5) has its record
C10_Witness ==
    /\ pc = "done"
    /\ args[1] = <<(<<0, 0, 5>>), (<<1, 0, 5>>), (<<1, 1, 5>>)>>
    /\ Len(quantities) = 1
    /\ quantities[1].type = "POLYFACE"
    /\ quantities[1].volume = Some(Num(0))

====
